---- MODULE Spec2Model ----
(***************************************************************************)
(* A model of the geometric core of DeepPlace:                             *)
(*   - the randomized non-overlapping placer                               *)
(*       backend/data_gen/generate_images.py  arrange_boxes_without_overlap*)
(*   - the packing optimizer                                               *)
(*       backend/data_gen/solutions_gen.py    pack_boxes                   *)
(*   - the contour detector's occupancy accounting                         *)
(*       backend/src/validation.py  analyze_rectangles_and_empty_space     *)
(*                                                                         *)
(* The canvas of the source is 800 x 600 pixels; the model keeps its 4:3   *)
(* shape on a canvas of CanvasW columns, and scales the 500 random         *)
(* attempts, the grid step of 5 and the detector's minimum area of 500     *)
(* down with it.                                                           *)
(***************************************************************************)
EXTENDS Integers, Sequences, FiniteSets, TLC

\* ------------------------------------------------------------- bounds
\* canvas width of the model (IMAGE_WIDTH = 800 in the source)
CanvasW == 4
\* longest input list of rectangles
MaxBoxes == 2
\* random attempts per rectangle (range(500) in the source)
MaxTries == 2
\* grid step of the fallback scan (step = 5 in the source)
GridStep == 2
\* outline margin of the model (OUTLINE_WIDTH = 2 in the source)
OutlineW == 1
\* smallest area the detector accepts (area_min = 500 in the source)
AreaMin == 2
\* most responses polled in one call of poll_until_ready
MaxPolls == 3
\* most candidate tasks of one call of generate_and_validate_parallel
MaxTasks == 2

\* ---------------------------------------------------------- constants
IMAGE_WIDTH == CanvasW
IMAGE_HEIGHT == (3 * CanvasW) \div 4
OUTLINE_WIDTH == OutlineW
COLOR_ORDER == <<"red", "green", "blue", "orange", "yellow">>

ColorIndex(name) == CHOOSE i \in DOMAIN COLOR_ORDER : COLOR_ORDER[i] = name

\* ------------------------------------------------------------ helpers
Min(S) == CHOOSE m \in S : \A e \in S : m <= e
Max(S) == CHOOSE m \in S : \A e \in S : m >= e

\* Python's sum() over a list of integers
RECURSIVE Sum(_)
Sum(s) == IF s = <<>> THEN 0 ELSE Head(s) + Sum(Tail(s))

\* Python's sorted(range(n), key=...) for the sequence keys of the n keys:
\* ascending, stable (equal keys keep their original order); returned as
\* the sequence of 1-based indices.
SortIndices(keys) ==
    LET n == Len(keys)
        Before(i, j) == keys[i] < keys[j] \/ (keys[i] = keys[j] /\ i < j)
        Rank(i) == Cardinality({j \in 1..n : Before(j, i)}) + 1
    IN  [r \in 1..n |-> CHOOSE i \in 1..n : Rank(i) = r]

\* ----------------------------------------------------------- geometry
\* boxes_overlap with rectangles that touch counted as overlapping
boxes_overlap_closed(box_a, box_b) ==
    LET a_left == box_a.x
        a_top == box_a.y
        a_right == a_left + box_a.width
        a_bottom == a_top + box_a.height
        b_left == box_b.x
        b_top == box_b.y
        b_right == b_left + box_b.width
        b_bottom == b_top + box_b.height
    IN  IF a_right < b_left \/ a_left > b_right THEN FALSE
        ELSE IF a_bottom < b_top \/ a_top > b_bottom THEN FALSE
        ELSE TRUE

\* boxes_overlap with b_bottom where b_top belongs in the test of the rows
boxes_overlap_rows_slip(box_a, box_b) ==
    LET a_left == box_a.x
        a_top == box_a.y
        a_right == a_left + box_a.width
        a_bottom == a_top + box_a.height
        b_left == box_b.x
        b_top == box_b.y
        b_right == b_left + box_b.width
        b_bottom == b_top + box_b.height
    IN  IF a_right <= b_left \/ a_left >= b_right THEN FALSE
        ELSE IF a_bottom <= b_bottom \/ a_top >= b_bottom THEN FALSE
        ELSE TRUE

boxes_overlap(box_a, box_b) ==
    LET a_left == box_a.x
        a_top == box_a.y
        a_right == a_left + box_a.width
        a_bottom == a_top + box_a.height
        b_left == box_b.x
        b_top == box_b.y
        b_right == b_left + box_b.width
        b_bottom == b_top + box_b.height
    IN  IF a_right <= b_left \/ a_left >= b_right THEN FALSE
        ELSE IF a_bottom <= b_top \/ a_top >= b_bottom THEN FALSE
        ELSE TRUE

\* ---------------------------------------------------------- variables
VARIABLES
    op,             \* the operation under way: "place", "pack" or "detect"
    boxes,          \* the caller's list of rectangles (the argument)
    pc,             \* where the running operation stands
    boxes_copy,     \* placer: the working copies
    order,          \* placer: indices of boxes_copy, largest area first
    oi,             \* placer: position in order of the rectangle in hand
    attempt,        \* placer: random attempts made for the rectangle in hand
    placed_boxes,   \* placer: indices of the rectangles placed so far
    how,            \* placer: which path placed each rectangle (history)
    result,         \* the returned list
    bins,           \* packer: the candidate bins not evaluated yet
    best_result,    \* packer: the best attempt so far, or None
    attempts,       \* packer: a summary of the attempts so far (history)
    contours,       \* detector: the bounding rectangles of the 4-vertex contours
    bboxes,         \* detector: the bounding rectangles accepted
    rectangles,     \* detector: the records collected from bboxes
    mask,           \* detector: the pixels set to 255 in the occupancy mask
    locals          \* the local variables of any other operation under way

placeVars == <<boxes_copy, order, oi, attempt, placed_boxes, how>>
packVars == <<bins, best_result, attempts>>
detVars == <<contours, bboxes, rectangles, mask>>
vars == <<op, boxes, pc, result, placeVars, packVars, detVars, locals>>

None == [none |-> TRUE]

\* The history of the attempts made so far, kept as a summary:
\*   count      how many attempts were made
\*   last_area  the nominal area of the bin tried last
\*   full       what the full-canvas bin gave: tried or not, packed or not, used area
\*   tight_min  an attempt's covering rectangle had exactly the rectangles' area
\*   late       a candidate was evaluated after such an attempt
\*   fallback   the full-canvas fallback was attempted
\*   cand_ok    some generated candidate bin held every rectangle
\*   min_used   the least used area any candidate gave so far
\*   first_min  the placements of the first candidate that gave min_used
NoAttempts ==
    [count |-> 0, last_area |-> 0,
     full |-> [tried |-> FALSE, ok |-> FALSE, used_area |-> 0], tight_min |-> FALSE,
     late |-> FALSE, fallback |-> FALSE, cand_ok |-> FALSE,
     min_used |-> 0, first_min |-> <<>>]

\* the variables of the placer, the optimizer and the detector at rest
IdlePlace ==
    /\ boxes_copy = <<>> /\ order = <<>> /\ oi = 0 /\ attempt = 0
    /\ placed_boxes = <<>> /\ how = <<>>
IdlePack == bins = {} /\ best_result = None /\ attempts = NoAttempts
IdleDetect == contours = <<>> /\ bboxes = <<>> /\ rectangles = <<>> /\ mask = {}

\* ------------------------------------------------------------- inputs
\* Colour assignments of an input list of n rectangles: the palette order
\* (one rectangle per colour, as create_random_boxes and extract_boxes give
\* them) and the reverse order.
ColorLists(n) ==
    { [i \in 1..n |-> COLOR_ORDER[i]],
      [i \in 1..n |-> COLOR_ORDER[Len(COLOR_ORDER) + 1 - i]] }

InputLists(Widths, Heights) ==
    UNION { { [i \in 1..n |-> [x |-> 0, y |-> 0, width |-> w[i], height |-> h[i],
                               color_name |-> c[i]]] :
                w \in [1..n -> Widths], h \in [1..n -> Heights], c \in ColorLists(n) } :
            n \in 1..MaxBoxes }

\* ------------------------------------------------------------- placer
PlaceWidths == {1, 2, IMAGE_WIDTH + 1}
PlaceHeights == {1, 2, IMAGE_HEIGHT + 1}

Area(box) == box.width * box.height

\* the rectangles taken in the order of the input list
PlacementOrder_as_given(bs) == [i \in DOMAIN bs |-> i]

\* sorted(range(len(boxes_copy)), key=area, reverse=True)
PlacementOrder(bs) ==
    SortIndices([i \in DOMAIN bs |-> 0 - Area(bs[i])])

\* the caller's own dict handed back where a copy is due
copy_shared(id, n) == id

\* box.copy(): a new dict with the same entries; the dicts of the caller's
\* list of n rectangles are the objects 1..n, the copy of object id is the
\* new object n + id
copy(id, n) == n + id

\* box['x'] = ...: the write lands in the object id, and a list shows it at
\* every place where it holds that object (ids[i] is the object at place i)
Store(list, ids, id, value) ==
    [i \in DOMAIN list |-> IF ids[i] = id THEN value ELSE list[i]]

\* the start of a call of the placer on one of the lists Inputs; locals
\* keeps the caller's rectangles as they were at the call, the objects of
\* the caller's list and the objects of boxes_copy
InitPlaceOn(Inputs) ==
    /\ op = "place"
    /\ boxes \in Inputs
    /\ locals = [at_call |-> boxes,
                 box_ids |-> [i \in DOMAIN boxes |-> i],
                 copy_ids |-> [i \in DOMAIN boxes |-> copy(i, Len(boxes))]]
    /\ boxes_copy = boxes
    /\ order = PlacementOrder(boxes)
    /\ oi = 1
    /\ attempt = 0
    /\ placed_boxes = <<>>
    /\ how = [i \in DOMAIN boxes |-> "none"]
    /\ result = <<>>
    /\ pc = "random"
    /\ bins = {} /\ best_result = None /\ attempts = NoAttempts
    /\ contours = <<>> /\ bboxes = <<>> /\ rectangles = <<>> /\ mask = {}

InitPlace == InitPlaceOn(InputLists(PlaceWidths, PlaceHeights))

PlacedRects == [k \in DOMAIN placed_boxes |-> boxes_copy[placed_boxes[k]]]

\* all(not boxes_overlap(box, other) for other in placed_boxes)
free(box, others) == \A k \in DOMAIN others : ~boxes_overlap(box, others[k])

\* max_x without the rectangle's own width
max_x_whole_canvas(box) == IMAGE_WIDTH

\* the largest x and y of a rectangle's top-left corner
max_x(box) == IMAGE_WIDTH - box.width
max_y(box) == IMAGE_HEIGHT - box.height

\* placed_boxes.append(box), then the next rectangle of the order
Accept(idx, path) ==
    /\ placed_boxes' = Append(placed_boxes, idx)
    /\ how' = [how EXCEPT ![idx] = path]
    /\ oi' = oi + 1
    /\ attempt' = 0
    /\ pc' = IF oi = Len(order) THEN "sort" ELSE "random"

\* a loop over range(500) that never runs out
Exhausted_never(n) == FALSE

\* for _ in range(500): the loop ends when n attempts were made
Exhausted(n) == n = MaxTries

\* one pass of the loop over range(500): a random position, kept when it
\* overlaps no placed rectangle
RandomAttempt ==
    /\ op = "place"
    /\ pc = "random"
    /\ LET idx == order[oi]
           box == boxes_copy[idx]
       IN  /\ max_x(box) >= 0 /\ max_y(box) >= 0
           /\ \E x \in 0..max_x(box), y \in 0..max_y(box) :
                LET moved == [box EXCEPT !.x = x, !.y = y]
                IN  /\ boxes_copy' = [boxes_copy EXCEPT ![idx] = moved]
                    /\ boxes' = Store(boxes, locals.box_ids, locals.copy_ids[idx], moved)
                    /\ IF free(moved, PlacedRects)
                       THEN Accept(idx, "random")
                       ELSE /\ attempt' = attempt + 1
                            /\ pc' = IF Exhausted(attempt + 1) THEN "grid" ELSE "random"
                            /\ UNCHANGED <<placed_boxes, how, oi>>
    /\ UNCHANGED <<op, locals, order, result, packVars, detVars>>

\* random.randint(0, b) with b < 0 raises ValueError
RandintError ==
    /\ op = "place"
    /\ pc = "random"
    /\ LET box == boxes_copy[order[oi]]
       IN  max_x(box) < 0 \/ max_y(box) < 0
    /\ pc' = "ValueError"
    /\ UNCHANGED <<op, boxes, locals, placeVars, result, packVars, detVars>>

\* range(0, limit + 1, step)
GridRange(limit) == {v \in 0..limit : v % GridStep = 0}

\* a scan by columns: x in the outer loop, y in the inner
Earlier_by_columns(p, q) == p[1] < q[1] \/ (p[1] = q[1] /\ p[2] <= q[2])

\* the point p comes no later than q in the scan: rows of y, then x
Earlier(p, q) == p[2] < q[2] \/ (p[2] = q[2] /\ p[1] <= q[1])

\* the scan stopping at whichever free point
StopsScan_anywhere(p, Free) == p \in Free

\* the scan breaks out of both loops at p: the first of the free points
StopsScan(p, Free) == p \in Free /\ \A q \in Free : Earlier(p, q)

\* the fallback: the grid scanned row by row, the first free point kept
GridSearch ==
    /\ op = "place"
    /\ pc = "grid"
    /\ LET idx == order[oi]
           box == boxes_copy[idx]
           At(p) == [box EXCEPT !.x = p[1], !.y = p[2]]
           Points == GridRange(max_x(box)) \X GridRange(max_y(box))
           Free == {p \in Points : free(At(p), PlacedRects)}
           last == CHOOSE p \in Points : \A q \in Points : Earlier(q, p)
       IN  IF Free # {}
           THEN \E first \in Points :
                /\ StopsScan(first, Free)
                /\ boxes_copy' = [boxes_copy EXCEPT ![idx] = At(first)]
                /\ boxes' = Store(boxes, locals.box_ids, locals.copy_ids[idx], At(first))
                /\ Accept(idx, "grid")
           ELSE /\ boxes_copy' = [boxes_copy EXCEPT ![idx] = At(last)]
                /\ boxes' = Store(boxes, locals.box_ids, locals.copy_ids[idx], At(last))
                /\ pc' = "RuntimeError"
                /\ UNCHANGED <<placed_boxes, how, oi, attempt>>
    /\ UNCHANGED <<op, locals, order, result, packVars, detVars>>

\* the list left in the order it has, no sort
SortByColor_as_given(bs) == bs

\* sorted(boxes_copy, key=lambda box: color_order.index(box['color_name']))
SortByColor(bs) ==
    LET idxs == SortIndices([i \in DOMAIN bs |-> ColorIndex(bs[i].color_name)])
    IN  [k \in DOMAIN bs |-> bs[idxs[k]]]

ReturnPlaced ==
    /\ op = "place"
    /\ pc = "sort"
    /\ result' = SortByColor(boxes_copy)
    /\ pc' = "returned"
    /\ UNCHANGED <<op, boxes, locals, placeVars, packVars, detVars>>

NextPlace == RandomAttempt \/ RandintError \/ GridSearch \/ ReturnPlaced

SpecPlace == InitPlace /\ [][NextPlace]_vars

\* the placer as the interpreter runs it: a call under way is not left
\* waiting for ever
FairWidths == {2, IMAGE_WIDTH + 1}
FairHeights == {1, 2}

InitPlaceFair == InitPlaceOn(InputLists(FairWidths, FairHeights))

SpecPlaceFair == InitPlaceFair /\ [][NextPlace]_vars /\ WF_vars(NextPlace)

\* ------------------------------------------------------------- packer
PackWidths == {1, 2, IMAGE_WIDTH, IMAGE_WIDTH + 1}
PackHeights == {1, 2, IMAGE_HEIGHT, IMAGE_WIDTH}

\* compute_bounds with the signs of the margin swapped
compute_bounds_inset(bs) ==
    LET min_x == Min({bs[i].x : i \in DOMAIN bs})
        min_y == Min({bs[i].y : i \in DOMAIN bs})
        max_x_ == Max({bs[i].x + bs[i].width : i \in DOMAIN bs})
        max_y_ == Max({bs[i].y + bs[i].height : i \in DOMAIN bs})
    IN  [left |-> Max({min_x + OUTLINE_WIDTH, 0}),
         top |-> Max({min_y + OUTLINE_WIDTH, 0}),
         right |-> Min({max_x_ - OUTLINE_WIDTH, IMAGE_WIDTH}),
         bottom |-> Min({max_y_ - OUTLINE_WIDTH, IMAGE_HEIGHT})]

\* solutions_gen.compute_bounds: the covering rectangle, widened by the
\* outline and cut to the canvas
compute_bounds(bs) ==
    LET min_x == Min({bs[i].x : i \in DOMAIN bs})
        min_y == Min({bs[i].y : i \in DOMAIN bs})
        max_x_ == Max({bs[i].x + bs[i].width : i \in DOMAIN bs})
        max_y_ == Max({bs[i].y + bs[i].height : i \in DOMAIN bs})
    IN  [left |-> Max({min_x - OUTLINE_WIDTH, 0}),
         top |-> Max({min_y - OUTLINE_WIDTH, 0}),
         right |-> Min({max_x_ + OUTLINE_WIDTH, IMAGE_WIDTH}),
         bottom |-> Min({max_y_ + OUTLINE_WIDTH, IMAGE_HEIGHT})]

\* rectpack, newPacker(rotation=True) with one bin of bw x bh.  The library
\* is not part of the repository; the model keeps what its packers promise:
\* a rectangle is placed as given or turned by 90 degrees, inside the bin,
\* clear of the rectangles placed before it, with its corner at x = 0 or at
\* the right edge of an earlier rectangle and at y = 0 or at the top edge of
\* one (the corner of a free rectangle), and a rectangle is left out only
\* when no such place is free.  The rectangles are taken largest area first
\* (the packer's default, SORT_AREA); which of the free places and which
\* orientation the heuristic picks is left open.
Orientations(box) == {<<box.width, box.height>>, <<box.height, box.width>>}

Rids(L) == {L[k].rid : k \in DOMAIN L}

Extensions(L, bs, rid, bw, bh) ==
    LET xs == {0} \cup {L[k].x + L[k].width : k \in DOMAIN L}
        ys == {0} \cup {L[k].y + L[k].height : k \in DOMAIN L}
        Cand == {[x |-> x, y |-> y, width |-> d[1], height |-> d[2], rid |-> rid] :
                    x \in xs, y \in ys, d \in Orientations(bs[rid])}
    IN  {r \in Cand : /\ r.x + r.width <= bw
                      /\ r.y + r.height <= bh
                      /\ \A k \in DOMAIN L : ~boxes_overlap(r, L[k])}

\* the lists of placed rectangles after the first k of the packing order
\* were offered; a rectangle with no free place is left out
RECURSIVE Layouts(_, _, _, _)
Layouts(bs, bw, bh, k) ==
    IF k = 0 THEN {<<>>}
    ELSE LET rid == PlacementOrder(bs)[k]
         IN  UNION {IF Extensions(L, bs, rid, bw, bh) = {} THEN {L}
                    ELSE {Append(L, r) : r \in Extensions(L, bs, rid, bw, bh)} :
                       L \in Layouts(bs, bw, bh, k - 1)}

\* packer.rect_list() after packer.pack(): every rectangle, or fewer
RectLists(bs, bw, bh) == Layouts(bs, bw, bh, Len(bs))

\* try_pack_in_bin taking the colour of the k-th input, not of input rid
try_pack_in_bin_by_position(bs, rects) ==
    IF Len(rects) < Len(bs) THEN None
    ELSE LET placements ==
                 [k \in DOMAIN rects |->
                     [x |-> rects[k].x, y |-> rects[k].y,
                      width |-> rects[k].width, height |-> rects[k].height,
                      color_name |-> bs[k].color_name]]
             bounds == compute_bounds(placements)
             used_area == (bounds.right - bounds.left) * (bounds.bottom - bounds.top)
         IN  [placements |-> placements, used_area |-> used_area]

try_pack_in_bin(bs, rects) ==
    IF Len(rects) < Len(bs) THEN None
    ELSE LET placements ==
                 [k \in DOMAIN rects |->
                     [x |-> rects[k].x, y |-> rects[k].y,
                      width |-> rects[k].width, height |-> rects[k].height,
                      color_name |-> bs[rects[k].rid].color_name]]
             bounds == compute_bounds(placements)
             used_area == (bounds.right - bounds.left) * (bounds.bottom - bounds.top)
         IN  [placements |-> placements, used_area |-> used_area]

\* int(math.ceil(math.sqrt(n)))
CeilSqrt(n) == CHOOSE b \in 0..n : b * b >= n /\ (b = 0 \/ (b - 1) * (b - 1) < n)

\* the steps of the sweep, (25, 50, 100) in the source, in the same 1:2:4
SweepSteps == {1, 2, 4}

\* range(start, stop, step)
Range(start, stop, step) == {v \in start..(stop - 1) : (v - start) % step = 0}

total_area(bs) == Sum([i \in DOMAIN bs |-> bs[i].width * bs[i].height])

\* generate_candidate_bins without the cut at the canvas's size
generate_candidate_bins_uncut(bs) ==
    LET max_width == Max({bs[i].width : i \in DOMAIN bs})
        max_height == Max({bs[i].height : i \in DOMAIN bs})
        base == CeilSqrt(total_area(bs))
        widths == {max_width, base, IMAGE_WIDTH} \cup
            UNION {Range(max_width, IMAGE_WIDTH + 1, step) : step \in SweepSteps}
        heights == {max_height, base, IMAGE_HEIGHT} \cup
            UNION {Range(max_height, IMAGE_HEIGHT + 1, step) : step \in SweepSteps}
    IN  {wh \in widths \X heights : wh[1] >= max_width /\ wh[2] >= max_height}

\* generate_candidate_bins without the test against the largest rectangle
generate_candidate_bins_unfiltered(bs) ==
    LET max_width == Max({bs[i].width : i \in DOMAIN bs})
        max_height == Max({bs[i].height : i \in DOMAIN bs})
        base == CeilSqrt(total_area(bs))
        width_candidates == {max_width, base, IMAGE_WIDTH} \cup
            UNION {Range(max_width, IMAGE_WIDTH + 1, step) : step \in SweepSteps}
        height_candidates == {max_height, base, IMAGE_HEIGHT} \cup
            UNION {Range(max_height, IMAGE_HEIGHT + 1, step) : step \in SweepSteps}
        widths == {w \in width_candidates : w <= IMAGE_WIDTH}
        heights == {h \in height_candidates : h <= IMAGE_HEIGHT}
    IN  widths \X heights

\* the set of candidate bins (their order is that of BinArea, below)
generate_candidate_bins(bs) ==
    LET max_width == Max({bs[i].width : i \in DOMAIN bs})
        max_height == Max({bs[i].height : i \in DOMAIN bs})
        base == CeilSqrt(total_area(bs))
        width_candidates == {max_width, base, IMAGE_WIDTH} \cup
            UNION {Range(max_width, IMAGE_WIDTH + 1, step) : step \in SweepSteps}
        height_candidates == {max_height, base, IMAGE_HEIGHT} \cup
            UNION {Range(max_height, IMAGE_HEIGHT + 1, step) : step \in SweepSteps}
        widths == {w \in width_candidates : w <= IMAGE_WIDTH}
        heights == {h \in height_candidates : h <= IMAGE_HEIGHT}
    IN  {wh \in widths \X heights : wh[1] >= max_width /\ wh[2] >= max_height}

\* a sort key that looks at the width of the bin alone
BinArea_width_only(wh) == wh[1]

\* key=lambda wh: wh[0] * wh[1]
BinArea(wh) == wh[1] * wh[2]
FullBin == <<IMAGE_WIDTH, IMAGE_HEIGHT>>

\* the area of the smallest rectangle covering the placements, no margin
TightArea(ps) ==
    (Max({ps[i].x + ps[i].width : i \in DOMAIN ps}) - Min({ps[i].x : i \in DOMAIN ps}))
    * (Max({ps[i].y + ps[i].height : i \in DOMAIN ps}) - Min({ps[i].y : i \in DOMAIN ps}))

InitPack ==
    /\ op = "pack"
    /\ locals = None
    /\ boxes \in InputLists(PackWidths, PackHeights)
    /\ bins = generate_candidate_bins(boxes)
    /\ best_result = None
    /\ attempts = NoAttempts
    /\ result = <<>>
    /\ pc = IF bins = {} THEN "after" ELSE "candidates"
    /\ boxes_copy = <<>> /\ order = <<>> /\ oi = 0 /\ attempt = 0
    /\ placed_boxes = <<>> /\ how = <<>>
    /\ contours = <<>> /\ bboxes = <<>> /\ rectangles = <<>> /\ mask = {}

Logged(phase, bin, att) ==
    [count |-> attempts.count + 1,
     last_area |-> BinArea(bin),
     full |-> IF bin # FullBin THEN attempts.full
              ELSE [tried |-> TRUE, ok |-> att # None,
                    used_area |-> IF att = None THEN 0 ELSE att.used_area],
     tight_min |-> attempts.tight_min
                   \/ (att # None /\ TightArea(att.placements) = total_area(boxes)),
     late |-> attempts.late \/ (phase = "candidate" /\ attempts.tight_min),
     fallback |-> attempts.fallback \/ phase = "fallback",
     cand_ok |-> attempts.cand_ok \/ (phase = "candidate" /\ att # None),
     min_used |-> IF phase = "candidate" /\ att # None
                  THEN IF attempts.cand_ok
                       THEN Min({attempts.min_used, att.used_area})
                       ELSE att.used_area
                  ELSE attempts.min_used,
     first_min |-> IF /\ phase = "candidate" /\ att # None
                      /\ (attempts.cand_ok => att.used_area < attempts.min_used)
                   THEN att.placements
                   ELSE attempts.first_min]

\* Improves with an attempt of the same used area taken as better
Improves_on_ties(att, best) == best = None \/ att.used_area <= best.used_area

\* Improves with the comparison turned round
Improves_larger(att, best) == best = None \/ att.used_area > best.used_area

\* whether an attempt replaces best_result
Improves(att, best) == best = None \/ att.used_area < best.used_area

\* one pass of the loop over the candidate bins, smallest nominal area
\* first; sorted() leaves the order among bins of equal area to the set's
\* iteration order
EvalCandidate ==
    /\ op = "pack"
    /\ pc = "candidates"
    /\ \E bin \in bins :
         /\ \A other \in bins : BinArea(bin) <= BinArea(other)
         /\ \E rects \in RectLists(boxes, bin[1], bin[2]) :
              LET att == try_pack_in_bin(boxes, rects)
                  min_possible_area == total_area(boxes)
                  better == att # None /\ Improves(att, best_result)
                  stop == better /\ att.used_area <= min_possible_area
              IN  /\ best_result' = IF better THEN att ELSE best_result
                  /\ bins' = bins \ {bin}
                  /\ attempts' = (Logged("candidate", bin, att))
                  /\ pc' = IF stop \/ bins' = {} THEN "after" ELSE "candidates"
    /\ UNCHANGED <<op, boxes, locals, result, placeVars, detVars>>

\* the fallback whatever the loop left in best_result
NeedsFallback_always(best) == TRUE

\* if best_result is None:
NeedsFallback(best) == best = None

\* best_result is None after the loop: the full canvas as the bin.  rectpack
\* is deterministic, so a full-canvas bin that failed as a candidate fails
\* again.
Fallback ==
    /\ op = "pack"
    /\ pc = "after"
    /\ NeedsFallback(best_result)
    /\ \E rects \in RectLists(boxes, IMAGE_WIDTH, IMAGE_HEIGHT) :
         LET fallback == try_pack_in_bin(boxes, rects)
         IN  /\ (attempts.full.tried /\ ~attempts.full.ok) => fallback = None
             /\ attempts' = (Logged("fallback", FullBin, fallback))
             /\ IF fallback = None
                THEN pc' = "RuntimeError" /\ UNCHANGED best_result
                ELSE pc' = "after" /\ best_result' = fallback
    /\ UNCHANGED <<op, boxes, locals, result, bins, placeVars, detVars>>

ReturnPacked ==
    /\ op = "pack"
    /\ pc = "after"
    /\ best_result # None
    /\ result' = SortByColor(best_result.placements)
    /\ pc' = "returned"
    /\ UNCHANGED <<op, boxes, locals, placeVars, packVars, detVars>>

NextPack == EvalCandidate \/ Fallback \/ ReturnPacked

SpecPack == InitPack /\ [][NextPack]_vars

\* ----------------------------------------------------------- detector
\* The image analysed: img.shape[:2], a square of the canvas's height.
img_width == IMAGE_HEIGHT
img_height == IMAGE_HEIGHT
total_pixels == img_width * img_height

\* cv2.boundingRect of a contour of the image: (x, y, w, h), inside it
BoundingRects ==
    {r \in (0..(img_width - 1)) \X (0..(img_height - 1)) \X (1..img_width) \X (1..img_height) :
        r[1] + r[3] <= img_width /\ r[2] + r[4] <= img_height}

RECURSIVE SeqsUpTo(_, _)
SeqsUpTo(S, n) ==
    IF n = 0 THEN {<<>>}
    ELSE SeqsUpTo(S, n - 1) \cup
         {Append(q, e) : q \in {t \in SeqsUpTo(S, n - 1) : Len(t) = n - 1}, e \in S}

InitDetect ==
    /\ op = "detect"
    /\ locals = None
    /\ contours \in SeqsUpTo(BoundingRects, MaxBoxes)
    /\ bboxes = <<>> /\ rectangles = <<>> /\ mask = {}
    /\ result = <<>>
    /\ pc = "find"
    /\ boxes = <<>>
    /\ boxes_copy = <<>> /\ order = <<>> /\ oi = 0 /\ attempt = 0
    /\ placed_boxes = <<>> /\ how = <<>>
    /\ bins = {} /\ best_result = None /\ attempts = NoAttempts

\* the area filter of find_quadrilateral_rectangles (area_max_ratio = 0.8)
Rejected(r) ==
    LET area == r[3] * r[4]
    IN  area < AreaMin \/ area * 10 > total_pixels * 8

RECURSIVE Filter(_)
Filter(cs) ==
    IF cs = <<>> THEN <<>>
    ELSE IF Rejected(Head(cs)) THEN Filter(Tail(cs))
    ELSE <<Head(cs)>> \o Filter(Tail(cs))

find_quadrilateral_rectangles ==
    /\ op = "detect"
    /\ pc = "find"
    /\ bboxes' = Filter(contours)
    /\ pc' = "annotate"
    /\ UNCHANGED <<op, boxes, locals, result, placeVars, packVars, contours, rectangles, mask>>

\* cv2.rectangle(mask, (x, y), (x + w, y + h), 255, -1): the filled rectangle
\* between the two corner pixels, both included, cut to the image
Filled(r) ==
    {px \in (0..(img_width - 1)) \X (0..(img_height - 1)) :
        /\ r[1] <= px[1] /\ px[1] <= r[1] + r[3]
        /\ r[2] <= px[2] /\ px[2] <= r[2] + r[4]}

annotate_and_collect ==
    /\ op = "detect"
    /\ pc = "annotate"
    /\ rectangles' = [i \in DOMAIN bboxes |->
                        [id |-> i, area |-> bboxes[i][3] * bboxes[i][4],
                         width |-> bboxes[i][3], height |-> bboxes[i][4],
                         bbox |-> bboxes[i]]]
    /\ mask' = UNION {Filled(bboxes[i]) : i \in DOMAIN bboxes}
    /\ pc' = "summarize"
    /\ UNCHANGED <<op, boxes, locals, result, placeVars, packVars, contours, bboxes>>

\* calculate_bounding_box_of_all_rectangles with an empty box, not None,
\* for an empty list
calculate_bounding_box_no_none(rs) ==
    IF rs = <<>> THEN <<0, 0, 0, 0>>
    ELSE LET min_x == Min({rs[i].bbox[1] : i \in DOMAIN rs})
             min_y == Min({rs[i].bbox[2] : i \in DOMAIN rs})
             max_x_ == Max({rs[i].bbox[1] + rs[i].bbox[3] : i \in DOMAIN rs})
             max_y_ == Max({rs[i].bbox[2] + rs[i].bbox[4] : i \in DOMAIN rs})
         IN  <<min_x, min_y, max_x_ - min_x, max_y_ - min_y>>

\* the bounding box of the first rectangle taken for that of all
calculate_bounding_box_of_first(rs) ==
    IF rs = <<>> THEN None
    ELSE rs[1].bbox

calculate_bounding_box_of_all_rectangles(rs) ==
    IF rs = <<>> THEN None
    ELSE LET min_x == Min({rs[i].bbox[1] : i \in DOMAIN rs})
             min_y == Min({rs[i].bbox[2] : i \in DOMAIN rs})
             max_x_ == Max({rs[i].bbox[1] + rs[i].bbox[3] : i \in DOMAIN rs})
             max_y_ == Max({rs[i].bbox[2] + rs[i].bbox[4] : i \in DOMAIN rs})
         IN  <<min_x, min_y, max_x_ - min_x, max_y_ - min_y>>

\* the summary of summarize_and_label, without its percentages
Summary(m, rs) ==
    LET real_occupied_pixels == Cardinality(m)
        bbox == calculate_bounding_box_of_all_rectangles(rs)
        roi_mask == {px \in m : /\ bbox[1] <= px[1] /\ px[1] < bbox[1] + bbox[3]
                                /\ bbox[2] <= px[2] /\ px[2] < bbox[2] + bbox[4]}
        content_area_pixels == IF bbox # None THEN bbox[3] * bbox[4] ELSE 0
        gap_pixels == IF bbox # None THEN content_area_pixels - Cardinality(roi_mask) ELSE 0
    IN  [total_pixels |-> total_pixels,
         occupied_pixels |-> real_occupied_pixels,
         content_area_pixels |-> content_area_pixels,
         gap_pixels |-> gap_pixels,
         empty_pixels |-> total_pixels - real_occupied_pixels,
         rectangle_count |-> Len(rs),
         rectangles |-> rs,
         content_bbox |-> bbox]

\* summarize_and_label, save_outputs and the return of
\* analyze_rectangles_and_empty_space
summarize_and_label ==
    /\ op = "detect"
    /\ pc = "summarize"
    /\ result' = Summary(mask, rectangles)
    /\ pc' = "returned"
    /\ UNCHANGED <<op, boxes, locals, placeVars, packVars, detVars>>

NextDetect == find_quadrilateral_rectangles \/ annotate_and_collect \/ summarize_and_label

SpecDetect == InitDetect /\ [][NextDetect]_vars

\* ---------------------------------------------------------- extractor
\* An image: its size and the colour of each pixel, a palette name, "white"
\* (the background) or "black" (the outlines).
Palette == {COLOR_ORDER[i] : i \in DOMAIN COLOR_ORDER}

\* Image.new("RGB", (IMAGE_WIDTH, IMAGE_HEIGHT), color="white")
Blank ==
    [p \in (0..(IMAGE_WIDTH - 1)) \X (0..(IMAGE_HEIGHT - 1)) |-> "white"]

\* ImageDraw.rectangle([x0, y0, x1, y1], fill, outline="black", width): the
\* pixels of x0..x1 by y0..y1, both ends included, cut to the image; the
\* outline is the band of width pixels inside the rectangle's border
draw_rectangle(pixels, x0, y0, x1, y1, fill, width) ==
    [p \in DOMAIN pixels |->
        IF x0 <= p[1] /\ p[1] <= x1 /\ y0 <= p[2] /\ p[2] <= y1
        THEN IF \/ p[1] - x0 < width \/ x1 - p[1] < width
                \/ p[2] - y0 < width \/ y1 - p[2] < width
             THEN "black" ELSE fill
        ELSE pixels[p]]

\* the loop of draw_boxes over the first k rectangles; reach is what the
\* far corner adds to x + width: 0 in generate_images, -1 in solutions_gen
RECURSIVE Painted(_, _, _)
Painted(bs, k, reach) ==
    IF k = 0 THEN Blank
    ELSE draw_rectangle(Painted(bs, k - 1, reach), bs[k].x, bs[k].y,
                        bs[k].x + bs[k].width + reach,
                        bs[k].y + bs[k].height + reach,
                        bs[k].color_name, OUTLINE_WIDTH)

\* img.crop((left, top, right, bottom))
crop(pixels, b) ==
    [width |-> b.right - b.left, height |-> b.bottom - b.top,
     pixels |-> [p \in (0..(b.right - b.left - 1)) \X (0..(b.bottom - b.top - 1)) |->
                    pixels[<<p[1] + b.left, p[2] + b.top>>]]]

\* draw_boxes of generate_images.py (reach 0) and of solutions_gen.py
\* (reach -1): the image saved
DrawBoxes(bs, reach) == crop(Painted(bs, Len(bs), reach), compute_bounds(bs))
draw_boxes(bs) == DrawBoxes(bs, 0)
draw_boxes_solutions(bs) == DrawBoxes(bs, -1)

\* The rectangles drawn: inside the canvas, free to overlap, as
\* create_random_boxes and the optimizer give them.
ExtractWidths == {2, IMAGE_WIDTH}
ExtractHeights == {2, IMAGE_HEIGHT}

DrawnLists ==
    UNION { { [i \in DOMAIN bs |-> [bs[i] EXCEPT !.x = at[i][1], !.y = at[i][2]]] :
                at \in {f \in [DOMAIN bs -> (0..IMAGE_WIDTH) \X (0..IMAGE_HEIGHT)] :
                          \A i \in DOMAIN bs : /\ f[i][1] + bs[i].width <= IMAGE_WIDTH
                                                /\ f[i][2] + bs[i].height <= IMAGE_HEIGHT} } :
            bs \in InputLists(ExtractWidths, ExtractHeights) }

\* bounds = {name: {"min_x": width, "max_x": -1, "min_y": height, "max_y": -1}}
NoBounds(img) ==
    [name \in Palette |->
        [min_x |-> img.width, max_x |-> -1, min_y |-> img.height, max_y |-> -1]]

InitExtract ==
    /\ op = "extract"
    /\ boxes \in DrawnLists
    /\ \E reach \in {0, -1} :
         LET img == IF reach = 0 THEN draw_boxes(boxes) ELSE draw_boxes_solutions(boxes)
         IN  locals = [img |-> img, bounds |-> NoBounds(img), reach |-> reach]
    /\ result = <<>>
    /\ pc = "scan"
    /\ IdlePlace /\ IdlePack /\ IdleDetect

\* the two loops over the pixels: the extent of each palette colour
ScanPixels ==
    /\ op = "extract"
    /\ pc = "scan"
    /\ LET img == locals.img
           Of(name) == {p \in DOMAIN img.pixels : img.pixels[p] = name}
           Extent(name) ==
               IF Of(name) = {} THEN locals.bounds[name]
               ELSE [min_x |-> Min({p[1] : p \in Of(name)}),
                     max_x |-> Max({p[1] : p \in Of(name)}),
                     min_y |-> Min({p[2] : p \in Of(name)}),
                     max_y |-> Max({p[2] : p \in Of(name)})]
       IN  locals' = [locals EXCEPT !.bounds = [name \in Palette |-> Extent(name)]]
    /\ pc' = "collect"
    /\ UNCHANGED <<op, boxes, result, placeVars, packVars, detVars>>

\* the rectangle built for a colour that was found
ExtractedBox(name, data, img) ==
    LET min_x == Max({data.min_x - OUTLINE_WIDTH, 0})
        min_y == Max({data.min_y - OUTLINE_WIDTH, 0})
        max_x_ == Min({data.max_x + OUTLINE_WIDTH, img.width - 1})
        max_y_ == Min({data.max_y + OUTLINE_WIDTH, img.height - 1})
    IN  [color_name |-> name, width |-> max_x_ - min_x + 1, height |-> max_y_ - min_y + 1]

\* Found testing min_x, which is never -1
Found_min_x(data) == data.min_x # -1

\* whether the scan found a pixel of the colour
Found(data) == data.max_x # -1

\* the loop over bounds.items(), in the palette's order: a colour that was
\* not found is skipped
RECURSIVE Collected(_, _, _)
Collected(k, bounds, img) ==
    IF k = 0 THEN <<>>
    ELSE LET name == COLOR_ORDER[k]
             before == Collected(k - 1, bounds, img)
         IN  IF ~Found(bounds[name]) THEN before
             ELSE Append(before, ExtractedBox(name, bounds[name], img))

\* the end of extract_boxes: the list returned, or ValueError for none
CollectBoxes ==
    /\ op = "extract"
    /\ pc = "collect"
    /\ LET found == Collected(Len(COLOR_ORDER), locals.bounds, locals.img)
       IN  IF found = <<>>
           THEN pc' = "ValueError" /\ UNCHANGED result
           ELSE pc' = "returned" /\ result' = found
    /\ UNCHANGED <<op, boxes, locals, placeVars, packVars, detVars>>

NextExtract == ScanPixels \/ CollectBoxes

SpecExtract == InitExtract /\ [][NextExtract]_vars

\* ------------------------------------------------------ boxes_overlap
\* a call of boxes_overlap on two rectangles of positive size that start
\* inside the canvas
OverlapBoxes ==
    [x : 0..(IMAGE_WIDTH - 1), y : 0..(IMAGE_HEIGHT - 1),
     width : {1, 2}, height : {1, 2}]

InitOverlap ==
    /\ op = "overlap"
    /\ \E box_a \in OverlapBoxes, box_b \in OverlapBoxes :
          locals = [box_a |-> box_a, box_b |-> box_b]
    /\ boxes = <<>>
    /\ result = <<>>
    /\ pc = "call"
    /\ IdlePlace /\ IdlePack /\ IdleDetect

CallOverlap ==
    /\ op = "overlap"
    /\ pc = "call"
    /\ result' = boxes_overlap(locals.box_a, locals.box_b)
    /\ pc' = "returned"
    /\ UNCHANGED <<op, boxes, locals, placeVars, packVars, detVars>>

NextOverlap == CallOverlap

SpecOverlap == InitOverlap /\ [][NextOverlap]_vars

\* --------------------------------------------------- poll_until_ready
\* JSON bodies the service answers with: a dict with a status, or a dict
\* without the key
Bodies ==
    { [status |-> s] : s \in {"Ready", "Error", "Failed", "Pending"} }
        \cup { [id |-> "r"] }

\* responses of requests.get: an answer of the service, or an HTTP error
Responses ==
    { [status_code |-> 200, json |-> d] : d \in Bodies }
        \cup { [status_code |-> 500, json |-> [detail |-> "error"]] }

\* the on_progress argument: not given, a callback that returns, a
\* callback that raises
Callbacks == {"none", "returns", "raises"}

\* the timeout_seconds argument: None or a number of ticks of the clock
Timeouts == {None} \cup { [seconds |-> t] : t \in 1..(MaxPolls - 1) }

\* timeout_seconds is not None and (time.time() - start_time) > timeout_seconds
TimedOut(timeout_seconds, elapsed) ==
    timeout_seconds # None /\ elapsed > timeout_seconds.seconds

\* response.raise_for_status() raises for the 4xx and 5xx codes
raise_for_status(response) == response.status_code >= 400

\* data.get("status", "Unknown")
get_status(data) == IF "status" \in DOMAIN data THEN data.status ELSE "Unknown"

\* the progress calls with the final answers left out
Progress_until_final(calls, on_progress, status) ==
    IF on_progress # "none" /\ status \notin {"Ready", "Error", "Failed"}
    THEN Append(calls, status)
    ELSE calls

\* if on_progress: on_progress(status, data), as the list of the calls made
Progress(calls, on_progress, status) ==
    IF on_progress # "none" THEN Append(calls, status) ELSE calls

\* locals of a call: the arguments timeout_seconds and on_progress, elapsed
\* = time.time() - start_time, and the history of the call: the responses
\* polled and the statuses on_progress was called with
InitPoll ==
    /\ op = "poll"
    /\ \E t \in Timeouts, cb \in Callbacks :
          locals = [timeout_seconds |-> t, on_progress |-> cb, elapsed |-> 0,
                    responses |-> <<>>, calls |-> <<>>]
    /\ boxes = <<>>
    /\ result = <<>>
    /\ pc = "loop"
    /\ IdlePlace /\ IdlePack /\ IdleDetect

\* the test at the top of the loop finds the time over
PollTimeout ==
    /\ op = "poll"
    /\ pc = "loop"
    /\ TimedOut(locals.timeout_seconds, locals.elapsed)
    /\ pc' = "TimeoutError"
    /\ UNCHANGED <<op, boxes, locals, result, placeVars, packVars, detVars>>

\* one pass of the loop: sleep, request, and the handling of the response
PollOnce ==
    /\ op = "poll"
    /\ pc = "loop"
    /\ ~TimedOut(locals.timeout_seconds, locals.elapsed)
    /\ Len(locals.responses) < MaxPolls
    /\ \E response \in Responses, slept \in {1, 2} :
          LET polled == [locals EXCEPT !.elapsed = locals.elapsed + slept,
                                       !.responses = Append(locals.responses, response)]
              data == response.json
              status == get_status(data)
          IN  IF raise_for_status(response)
              THEN /\ locals' = polled
                   /\ pc' = "HTTPError"
                   /\ UNCHANGED result
              ELSE /\ locals' = [polled EXCEPT !.calls = Progress(locals.calls, locals.on_progress, status)]
                   /\ IF locals.on_progress = "raises"
                      THEN pc' = "CallbackError" /\ UNCHANGED result
                      ELSE IF status = "Ready"
                      THEN pc' = "returned" /\ result' = data
                      ELSE IF status \in {"Error", "Failed"}
                      THEN pc' = "RuntimeError" /\ UNCHANGED result
                      ELSE pc' = "loop" /\ UNCHANGED result
    /\ UNCHANGED <<op, boxes, placeVars, packVars, detVars>>

NextPoll == PollTimeout \/ PollOnce

SpecPoll == InitPoll /\ [][NextPoll]_vars

\* -------------------------------------------------------- select_best
Abs(v) == IF v < 0 THEN 0 - v ELSE v

RECURSIVE Product(_)
Product(s) == IF s = <<>> THEN 1 ELSE Head(s) * Product(Tail(s))

\* sorted(list) of a list of numbers
sorted(s) ==
    LET idxs == SortIndices(s)
    IN  [k \in DOMAIN s |-> s[idxs[k]]]

\* Scores are fractions <<numerator, denominator>> with a denominator that
\* is never negative; float("inf") is the fraction <<1, 0>>.
Inf == <<1, 0>>
ScoreLess(s, t) == s[1] * t[2] < t[1] * s[2]
ScoreEqual(s, t) == s[1] * t[2] = t[1] * s[2]

\* _size_match_score: the mean of the relative differences of the areas
\* paired in ascending order, plus 1 for each rectangle one list has more
\* than the other; over the common denominator n * D, where D is the
\* product of the original areas compared
size_match_score(orig_areas, cand_areas) ==
    IF orig_areas = <<>> \/ cand_areas = <<>> THEN Inf
    ELSE LET a == sorted(orig_areas)
             b == sorted(cand_areas)
             n == Min({Len(a), Len(b)})
             D == Product([i \in 1..n |-> IF a[i] <= 0 THEN 1 ELSE a[i]])
             diff(i) == IF a[i] <= 0 THEN D ELSE (Abs(b[i] - a[i]) * D) \div a[i]
             penalty == Abs(Len(a) - Len(b))
         IN  <<Sum([i \in 1..n |-> diff(i)]) + penalty * n * D, n * D>>

\* c.get("empty_percentage") is not None: a candidate without a value of
\* empty_percentage is the dict without the key
HasEmpty(c) == "empty_percentage" \in DOMAIN c

\* a count that never tells the candidates apart
count_mismatch_ignored(c, original_rect_count) == 0

\* count_mismatch of sort_key
count_mismatch(c, original_rect_count) ==
    IF original_rect_count # None
    THEN IF c.rectangle_count = original_rect_count.value THEN 0 ELSE 1
    ELSE 0

\* size_score of sort_key; "if original_rect_areas:" takes None and the
\* empty list alike, and both are <<>> here
size_score(c, original_rect_areas) ==
    IF original_rect_areas # <<>>
    THEN size_match_score(original_rect_areas, c.rect_areas)
    ELSE Inf

\* sort_key: the tuple (count_mismatch, size_score, empty)
sort_key(c, original_rect_count, original_rect_areas) ==
    <<count_mismatch(c, original_rect_count),
      size_score(c, original_rect_areas),
      c.empty_percentage>>

\* Python's order of the tuples sort_key gives
KeyLess(k, l) ==
    \/ k[1] < l[1]
    \/ k[1] = l[1] /\ ScoreLess(k[2], l[2])
    \/ k[1] = l[1] /\ ScoreEqual(k[2], l[2]) /\ k[3] < l[3]

\* [c for c in candidates if ...], as the places of candidates kept
valid_places(candidates) == {i \in DOMAIN candidates : HasEmpty(candidates[i])}

\* min(valid, key=sort_key): the first of the candidates with a least key
select_best(candidates, original_rect_count, original_rect_areas) ==
    LET valid == valid_places(candidates)
        key(i) == sort_key(candidates[i], original_rect_count, original_rect_areas)
        least == {i \in valid : \A j \in valid : ~KeyLess(key(j), key(i))}
    IN  IF valid = {} THEN None ELSE candidates[Min(least)]

\* candidates as generate_and_validate makes them: the areas found, their
\* number, and the empty percentage if the analysis gave one
CandidateAreas == {<<>>, <<2>>, <<5>>, <<5, 2>>}
Candidates ==
    { [rectangle_count |-> Len(a), rect_areas |-> a] : a \in CandidateAreas }
        \cup { [rectangle_count |-> Len(a), rect_areas |-> a, empty_percentage |-> e] :
                   a \in CandidateAreas, e \in {0, 1} }

\* the original's summary: none, or the areas found and their number
OriginalAreas == {<<>>, <<2>>, <<1, 2>>}
Originals ==
    { [original_rect_count |-> None, original_rect_areas |-> <<>>] }
        \cup { [original_rect_count |-> [value |-> Len(a)], original_rect_areas |-> a] :
                   a \in OriginalAreas }

CandidateLists == UNION { [1..n -> Candidates] : n \in 0..MaxBoxes }

InitSelect ==
    /\ op = "select"
    /\ \E original \in Originals, candidates \in CandidateLists :
          locals = [candidates |-> candidates,
                    original_rect_count |-> original.original_rect_count,
                    original_rect_areas |-> original.original_rect_areas]
    /\ boxes = <<>>
    /\ result = <<>>
    /\ pc = "call"
    /\ IdlePlace /\ IdlePack /\ IdleDetect

CallSelect ==
    /\ op = "select"
    /\ pc = "call"
    /\ result' = select_best(locals.candidates, locals.original_rect_count, locals.original_rect_areas)
    /\ pc' = "returned"
    /\ UNCHANGED <<op, boxes, locals, placeVars, packVars, detVars>>

NextSelect == CallSelect

SpecSelect == InitSelect /\ [][NextSelect]_vars

\* ------------------------------------- generate_and_validate_parallel
\* gather giving the results in the order the tasks completed
gather_as_completed(records, finished) ==
    [k \in DOMAIN finished |-> records[finished[k]]]

\* asyncio.gather(*tasks): the results in the order of the tasks
gather(records, finished) == records

\* the try of generate_single_candidate catches an Exception raised by the
\* submission, the polling, the saving (outer try) and the validation
\* (inner try)
Handled(stage) == stage \in {"submit", "poll", "save", "validate"}

\* the record a task returns after a failure at a stage
ErrorRecord(index, stage) ==
    [index |-> index,
     path |-> IF stage = "validate" THEN <<"flux_candidate", index>> ELSE None,
     error |-> stage]

\* the record a task returns when the API's answer has no sample
NoSampleRecord(index) ==
    [index |-> index, path |-> None, error |-> "No sample in API response"]

\* the record a task returns after a validation
MetricsRecord(index) ==
    [index |-> index, path |-> <<"flux_candidate", index>>, rect_areas |-> <<>>]

\* locals of a call with count tasks: for each task the await it stands
\* at ("done" once it returned), the record it returned, and the order in
\* which the tasks returned
InitGenerate ==
    /\ op = "generate"
    /\ \E count \in 0..MaxTasks :
          locals = [count |-> count,
                    stage |-> [i \in 1..count |-> "submit"],
                    records |-> [i \in 1..count |-> None],
                    finished |-> <<>>]
    /\ boxes = <<>>
    /\ result = <<>>
    /\ pc = "gather"
    /\ IdlePlace /\ IdlePack /\ IdleDetect

\* task i goes on to the await of stage next
Proceeds(i, next) ==
    /\ locals' = [locals EXCEPT !.stage[i] = next]
    /\ UNCHANGED pc

\* task i returns record
Returns(i, record) ==
    /\ locals' = [locals EXCEPT !.stage[i] = "done", !.records[i] = record,
                                !.finished = Append(locals.finished, i)]
    /\ UNCHANGED pc

\* the job task i awaits at stage raised: the task returns an error record
\* if its try covers the stage, and gather passes the exception on if not
Raises(i, stage) ==
    IF Handled(stage)
    THEN Returns(i, ErrorRecord(i, stage))
    ELSE pc' = "Exception" /\ UNCHANGED locals

AtStage(i, stage) ==
    /\ op = "generate"
    /\ pc = "gather"
    /\ i \in 1..locals.count
    /\ locals.stage[i] = stage

\* submit_generation of task i ends
SubmitDone ==
    /\ \E i \in 1..MaxTasks :
          /\ AtStage(i, "submit")
          /\ \/ Proceeds(i, "poll")
             \/ Raises(i, "submit")
    /\ UNCHANGED <<op, boxes, result, placeVars, packVars, detVars>>

\* poll_until_ready of task i ends, and the sample is looked up
PollDone ==
    /\ \E i \in 1..MaxTasks :
          /\ AtStage(i, "poll")
          /\ \/ Proceeds(i, "save")
             \/ Returns(i, NoSampleRecord(i))
             \/ Raises(i, "poll")
    /\ UNCHANGED <<op, boxes, result, placeVars, packVars, detVars>>

\* _save_image of task i ends
SaveDone ==
    /\ \E i \in 1..MaxTasks :
          /\ AtStage(i, "save")
          /\ \/ Proceeds(i, "validate")
             \/ Raises(i, "save")
    /\ UNCHANGED <<op, boxes, result, placeVars, packVars, detVars>>

\* analyze_rectangles_and_empty_space of task i ends
ValidateDone ==
    /\ \E i \in 1..MaxTasks :
          /\ AtStage(i, "validate")
          /\ \/ Returns(i, MetricsRecord(i))
             \/ Raises(i, "validate")
    /\ UNCHANGED <<op, boxes, result, placeVars, packVars, detVars>>

\* every task returned: gather gives the list and the function returns it
GatherDone ==
    /\ op = "generate"
    /\ pc = "gather"
    /\ \A i \in 1..locals.count : locals.stage[i] = "done"
    /\ result' = gather(locals.records, locals.finished)
    /\ pc' = "returned"
    /\ UNCHANGED <<op, boxes, locals, placeVars, packVars, detVars>>

NextGenerate == SubmitDone \/ PollDone \/ SaveDone \/ ValidateDone \/ GatherDone

SpecGenerate == InitGenerate /\ [][NextGenerate]_vars

\* ------------------------------------------------- all three together
Init == InitPlace \/ InitPack \/ InitDetect
Next == NextPlace \/ NextPack \/ NextDetect
Spec == Init /\ [][Next]_vars

\* =============================================================== claims
\* two rectangles cover a common pixel (stated without boxes_overlap)
SharePixel(a, b) ==
    \E px \in a.x..(a.x + a.width - 1), py \in a.y..(a.y + a.height - 1) :
        /\ b.x <= px /\ px < b.x + b.width
        /\ b.y <= py /\ py < b.y + b.height

Placed == op = "place" /\ pc = "returned"
Packed == op = "pack" /\ pc = "returned"
Analysed == op = "detect" /\ pc = "returned"

\* C1: no two distinct rectangles of the list the placer returns overlap,
\* whichever path, random attempt or grid fallback, placed them.
C1_NoOverlapInPlacement ==
    Placed => \A i, j \in DOMAIN result :
                 i # j => /\ ~boxes_overlap(result[i], result[j])
                          /\ ~SharePixel(result[i], result[j])

\* C1 witness: a list of two returned, one placed at random, one by the grid
C1_Witness ==
    /\ Placed
    /\ Len(result) >= 2
    /\ \E i, j \in DOMAIN how : how[i] = "random" /\ how[j] = "grid"

\* C2: every rectangle the placer returns lies inside the canvas:
\* 0 <= x, 0 <= y, x + width <= canvas width, y + height <= canvas height.
C2_PlacementInsideCanvas ==
    Placed => \A i \in DOMAIN result :
                 /\ 0 <= result[i].x /\ 0 <= result[i].y
                 /\ result[i].x + result[i].width <= IMAGE_WIDTH
                 /\ result[i].y + result[i].height <= IMAGE_HEIGHT

\* C2 witness: a returned list with a rectangle placed at random in the
\* bottom right corner of the canvas and one placed by the grid
C2_Witness ==
    /\ Placed
    /\ \E i, j \in DOMAIN boxes_copy :
         /\ how[i] = "random"
         /\ boxes_copy[i].x + boxes_copy[i].width = IMAGE_WIDTH
         /\ boxes_copy[i].y + boxes_copy[i].height = IMAGE_HEIGHT
         /\ how[j] = "grid"

\* the lists s and t hold the same keys the same number of times
SameBag(s, t) ==
    /\ Len(s) = Len(t)
    /\ \A i \in DOMAIN s :
         Cardinality({j \in DOMAIN s : s[j] = s[i]})
           = Cardinality({j \in DOMAIN t : t[j] = s[i]})

Triple(box) == <<box.width, box.height, box.color_name>>
\* the triple of a rectangle, the same for the rectangle turned by 90 degrees
TurnedTriple(box) ==
    <<Min({box.width, box.height}), Max({box.width, box.height}), box.color_name>>

\* C3: the placer returns the (width, height, colour) triples of its input,
\* each as often as given; the packing optimizer returns them up to the swap
\* of width and height of a rectangle it turned.
C3_Conservation ==
    /\ Placed => SameBag([i \in DOMAIN result |-> Triple(result[i])],
                          [i \in DOMAIN boxes |-> Triple(boxes[i])])
    /\ Packed => SameBag([i \in DOMAIN result |-> TurnedTriple(result[i])],
                          [i \in DOMAIN boxes |-> TurnedTriple(boxes[i])])

\* C3 witness: the optimizer returns two rectangles, one of them turned
C3_Witness ==
    /\ Packed
    /\ Len(result) >= 2
    /\ \E i \in DOMAIN result : \A j \in DOMAIN boxes : Triple(result[i]) # Triple(boxes[j])

\* C4: when the optimizer returns, the bounding area of the chosen attempt
\* (and the area of the rectangle that covers its placements) is at least
\* the sum of the rectangles' areas.
C4_AreaLowerBound ==
    Packed => /\ best_result.used_area >= total_area(boxes)
              /\ TightArea(result) >= total_area(boxes)

\* C4 witness: two rectangles returned whose bounding area is exactly the
\* sum of their areas
C4_Witness ==
    /\ Packed
    /\ Len(result) >= 2
    /\ best_result.used_area = total_area(boxes)

\* C5: when the optimizer returns, the full-canvas bin was tried, and if it
\* held the rectangles, the bounding area of the chosen attempt is at most
\* the bounding area of the full-canvas attempt.
C5_NoWorseThanFullCanvas ==
    Packed => /\ attempts.full.tried
              /\ attempts.full.ok => best_result.used_area <= attempts.full.used_area

\* C5 witness: the chosen attempt is strictly better than the full canvas's
C5_Witness ==
    /\ Packed
    /\ attempts.full.ok
    /\ best_result.used_area < attempts.full.used_area

\* some placement of all the rectangles inside the canvas is free of overlap
Arrangeable(bs) ==
    \E f \in [DOMAIN bs -> (0..IMAGE_WIDTH) \X (0..IMAGE_HEIGHT)] :
        LET At(i) == [bs[i] EXCEPT !.x = f[i][1], !.y = f[i][2]]
        IN  /\ \A i \in DOMAIN bs : /\ f[i][1] + bs[i].width <= IMAGE_WIDTH
                                    /\ f[i][2] + bs[i].height <= IMAGE_HEIGHT
            /\ \A i, j \in DOMAIN bs : i # j => ~SharePixel(At(i), At(j))

\* C6: the placer raises 'Unable to place box without overlap' only when no
\* overlap-free arrangement of the input inside the canvas exists.
C6_RaisesOnlyWhenImpossible ==
    (op = "place" /\ pc = "RuntimeError") => ~Arrangeable(boxes)

\* C7: no candidate is evaluated after an attempt whose covering rectangle
\* has exactly the sum of the rectangles' areas.
C7_StopsAtTightMinimum == op = "pack" => ~attempts.late

\* C8: when two rectangles are detected and their bounding boxes share a
\* pixel, occupied_pixels is less than the sum of their two areas.
C8_UnionBelowSum ==
    (/\ Analysed
     /\ Len(rectangles) = 2
     /\ \E px \in (0..(img_width - 1)) \X (0..(img_height - 1)) :
          \A i \in 1..2 :
             LET b == result.rectangles[i].bbox
             IN  /\ b[1] <= px[1] /\ px[1] < b[1] + b[3]
                 /\ b[2] <= px[2] /\ px[2] < b[2] + b[4])
    => result.occupied_pixels < result.rectangles[1].area + result.rectangles[2].area

\* C9 as claimed: the analysis never returns a summary when no rectangle
\* was detected.
C9_ZeroRectanglesFatal == ~(Analysed /\ rectangles = <<>>)

\* C9 as amended: with no rectangle detected the analysis goes on to its
\* summary and returns one with rectangle_count 0, no rectangles, nothing
\* occupied, the whole image empty, content_bbox None and content area and
\* gap 0.
C9_ZeroRectanglesSummary ==
    /\ (op = "detect" /\ pc = "summarize" /\ rectangles = <<>>)
         => ENABLED summarize_and_label
    /\ (Analysed /\ rectangles = <<>>)
         => /\ result.rectangle_count = 0
            /\ result.rectangles = <<>>
            /\ result.occupied_pixels = 0
            /\ result.empty_pixels = result.total_pixels
            /\ result.content_bbox = None
            /\ result.content_area_pixels = 0
            /\ result.gap_pixels = 0

\* C9 witness: a summary returned for an image whose contours were all
\* rejected by the area filter
C9_Witness == Analysed /\ rectangles = <<>> /\ contours # <<>>

Oversize(box) == box.width > IMAGE_WIDTH \/ box.height > IMAGE_HEIGHT
OversizeTurned(box) == box.height > IMAGE_WIDTH \/ box.width > IMAGE_HEIGHT

\* C10 as claimed: with an input rectangle wider or taller than the canvas
\* the optimizer returns no placement.
C10_OversizeFatal ==
    (op = "pack" /\ \E i \in DOMAIN boxes : Oversize(boxes[i])) => pc # "returned"

\* C10 as amended: with an input rectangle that exceeds the canvas as given
\* and turned by 90 degrees, the optimizer has no candidate bin, keeps no
\* result, returns nothing, and its fallback raises.
C10_UnfittableFatal ==
    (op = "pack" /\ \E i \in DOMAIN boxes : Oversize(boxes[i]) /\ OversizeTurned(boxes[i]))
    => /\ pc \in {"after", "RuntimeError"}
       /\ bins = {}
       /\ best_result = None
       /\ result = <<>>
       /\ pc = "after" => ENABLED Fallback

\* C10 witness: the fallback raised for two rectangles, one of which fits
\* the canvas neither way
C10_Witness ==
    /\ op = "pack" /\ pc = "RuntimeError"
    /\ Len(boxes) >= 2
    /\ \E i \in DOMAIN boxes : Oversize(boxes[i]) /\ OversizeTurned(boxes[i])

\* C11: when the optimizer has ended, the full-canvas fallback was attempted
\* exactly when no generated candidate bin held the rectangles; it raised
\* exactly when no candidate held them and the fallback failed too; in
\* every other case it returned a placement of every input rectangle.  The
\* fallback is never attempted while candidates remain, and the optimizer
\* never stops short of one of the two ends.
C11_FallbackAndFatal ==
    op = "pack" =>
      /\ attempts.fallback => /\ pc \in {"after", "returned", "RuntimeError"}
                              /\ ~attempts.cand_ok
      /\ pc \in {"returned", "RuntimeError"} =>
            /\ attempts.fallback <=> ~attempts.cand_ok
            /\ pc = "RuntimeError" <=>
                  (~attempts.cand_ok /\ attempts.full.tried /\ ~attempts.full.ok)
            /\ pc = "returned" => Len(result) = Len(boxes)
      /\ pc = "after" => (ENABLED Fallback \/ ENABLED ReturnPacked)

\* C11 witness: two rectangles returned from the fallback's packing, after
\* no candidate bin was generated
C11_Witness ==
    /\ Packed
    /\ Len(boxes) >= 2
    /\ attempts.fallback
    /\ attempts.count = 1

Extracted == op = "extract" /\ pc = "returned"

\* the pixels of the image read that have exactly the palette colour
Matching(name) == {p \in DOMAIN locals.img.pixels : locals.img.pixels[p] = name}

\* C12: in the extractor, a palette colour with no matching pixel gives no
\* rectangle and does not stop the other colours: the list returned holds
\* one rectangle for each colour that has a matching pixel and none for the
\* others; ValueError is raised exactly when no palette colour has a
\* matching pixel.
C12_AbsentColourSkipped ==
    op = "extract" =>
      /\ pc = "collect" => ENABLED CollectBoxes
      /\ pc \in {"returned", "ValueError"} =>
            (pc = "ValueError" <=> \A name \in Palette : Matching(name) = {})
      /\ pc = "returned" =>
            \A name \in Palette :
               Cardinality({i \in DOMAIN result : result[i].color_name = name})
                 = IF Matching(name) = {} THEN 0 ELSE 1

\* C12 witness: two rectangles drawn, the colour of one has no pixel left,
\* the other is returned
C12_Witness ==
    /\ Extracted
    /\ Len(boxes) = 2
    /\ Len(result) = 1

\* a rectangle large enough for some of its fill to be left inside its
\* outline when it is drawn alone
ShowsFill(box, reach) ==
    /\ box.width + reach + 1 > 2 * OUTLINE_WIDTH
    /\ box.height + reach + 1 > 2 * OUTLINE_WIDTH

\* the extractor returned a rectangle of the box's colour whose width and
\* height are within the outline margin of the box's
Recovered(box) ==
    \E j \in DOMAIN result :
        /\ result[j].color_name = box.color_name
        /\ result[j].width - box.width \in (0 - OUTLINE_WIDTH)..OUTLINE_WIDTH
        /\ result[j].height - box.height \in (0 - OUTLINE_WIDTH)..OUTLINE_WIDTH

\* C13: when the extractor has read an image drawn from the rectangles
\* boxes, it has recovered every one of them whose colour is present in the
\* image, with width and height within the outline margin of the original.
C13_RoundTrip ==
    (op = "extract" /\ pc \in {"returned", "ValueError"})
    => \A i \in DOMAIN boxes : Matching(boxes[i].color_name) # {} => Recovered(boxes[i])

\* C13 for every rectangle drawn that is large enough to show its colour
C13_RoundTripOfAll ==
    (op = "extract" /\ pc \in {"returned", "ValueError"})
    => \A i \in DOMAIN boxes : ShowsFill(boxes[i], locals.reach) => Recovered(boxes[i])

\* C13 for rectangles drawn clear of one another
C13_RoundTripOfDisjoint ==
    (/\ op = "extract" /\ pc \in {"returned", "ValueError"}
     /\ \A i, j \in DOMAIN boxes : i # j => ~boxes_overlap(boxes[i], boxes[j]))
    => \A i \in DOMAIN boxes : ShowsFill(boxes[i], locals.reach) => Recovered(boxes[i])

\* the placer's variables
PlacerNow ==
    [boxes_copy |-> boxes_copy, order |-> order, oi |-> oi, attempt |-> attempt,
     placed_boxes |-> placed_boxes, pc |-> pc, result |-> result]

\* the placer's variables at its start, from the input alone
PlacerStart(bs) ==
    [boxes_copy |-> bs, order |-> PlacementOrder(bs), oi |-> 1, attempt |-> 0,
     placed_boxes |-> <<>>, pc |-> "random", result |-> <<>>]

\* the placer's variables one step on, from the variables now and the
\* pair (x, y) the random source gives if the step draws from it
PlacerAfter(x, y) ==
    LET now == PlacerNow
        idx == order[oi]
        box == boxes_copy[idx]
        At(px, py) == [box EXCEPT !.x = px, !.y = py]
        Kept(moved) ==
            [now EXCEPT !.boxes_copy = [boxes_copy EXCEPT ![idx] = moved],
                        !.placed_boxes = Append(placed_boxes, idx),
                        !.oi = oi + 1, !.attempt = 0,
                        !.pc = IF oi = Len(order) THEN "sort" ELSE "random"]
        Points == GridRange(max_x(box)) \X GridRange(max_y(box))
        Free == {p \in Points : free(At(p[1], p[2]), PlacedRects)}
        first == CHOOSE p \in Free : \A q \in Free : Earlier(p, q)
        last == CHOOSE p \in Points : \A q \in Points : Earlier(q, p)
    IN  CASE pc = "random" /\ (max_x(box) < 0 \/ max_y(box) < 0) ->
               [now EXCEPT !.pc = "ValueError"]
          [] pc = "random" /\ max_x(box) >= 0 /\ max_y(box) >= 0 ->
               IF free(At(x, y), PlacedRects) THEN Kept(At(x, y))
               ELSE [now EXCEPT !.boxes_copy = [boxes_copy EXCEPT ![idx] = At(x, y)],
                                !.attempt = attempt + 1,
                                !.pc = IF attempt + 1 = MaxTries THEN "grid" ELSE "random"]
          [] pc = "grid" ->
               IF Free # {} THEN Kept(At(first[1], first[2]))
               ELSE [now EXCEPT !.boxes_copy = [boxes_copy EXCEPT ![idx] = At(last[1], last[2])],
                                !.pc = "RuntimeError"]
          [] pc = "sort" ->
               [now EXCEPT !.result = SortByColor(boxes_copy), !.pc = "returned"]

\* C14: the placer's run is a function of its input and of the random
\* draws it consumes: its variables start as the input alone fixes them,
\* and every step leaves them as the variables before it and the pair
\* drawn in it (if it drew) fix them; so two runs on the same input that
\* consume the same draws pass through the same states and return the
\* same list, the same x and y for every rectangle in the same order.
C14_FunctionOfDraws ==
    /\ op = "place" => PlacerNow = PlacerStart(boxes)
    /\ [][op = "place" =>
            /\ boxes' = boxes
            /\ PlacerNow' =
                  IF pc = "random"
                  THEN PlacerAfter(boxes_copy'[order[oi]].x, boxes_copy'[order[oi]].y)
                  ELSE PlacerAfter(0, 0)]_vars

\* C14 witness: two rectangles returned, the first kept where it was drawn,
\* the second after a draw that was given up and the scan of the grid
C14_Witness ==
    /\ Placed
    /\ Len(result) = 2
    /\ how[order[1]] = "random"
    /\ how[order[2]] = "grid"
    /\ boxes_copy[order[1]].x > 0

\* every input rectangle is no wider and no taller than the canvas
AllFit == \A i \in DOMAIN boxes : ~Oversize(boxes[i])

\* C15: on an input whose rectangles each fit the canvas the placer ends,
\* with the list returned or with its RuntimeError; for each rectangle it
\* makes no more random attempts than the loop's range allows, scans the
\* grid only after all of them failed, and leaves the scan for the next
\* rectangle or for the error, never for a second scan.
C15_Terminates ==
    /\ []((op = "place" /\ AllFit) =>
             /\ attempt <= MaxTries
             /\ pc = "random" => attempt < MaxTries
             /\ pc = "grid" => attempt = MaxTries
             /\ pc # "ValueError")
    /\ [][(op = "place" /\ pc = "grid") =>
             (pc' = "RuntimeError" \/ ((pc' \in {"random", "sort"}) /\ oi' = oi + 1))]_vars
    /\ (op = "place" /\ AllFit) ~> (pc \in {"returned", "RuntimeError"})

\* C15 witness: the error raised for two rectangles that each fit, after
\* the random attempts and the scan of the grid
C15_Witness ==
    /\ op = "place" /\ pc = "RuntimeError"
    /\ AllFit
    /\ Len(boxes) = 2
    /\ attempt = MaxTries

\* C16: the list the placer returns and the list the packer returns are in
\* the order of the palette: a rectangle never comes after one whose colour
\* stands later in the palette.
C16_PaletteOrder ==
    (op \in {"place", "pack"} /\ pc = "returned") =>
        \A i, j \in DOMAIN result :
            i < j => ColorIndex(result[i].color_name) <= ColorIndex(result[j].color_name)

\* a placer's call returned two rectangles that it was given in the reverse
\* of the palette order
C16_Witness ==
    /\ op = "place"
    /\ pc = "returned"
    /\ Len(result) = 2
    /\ ColorIndex(boxes[1].color_name) > ColorIndex(boxes[2].color_name)
    /\ result[1].color_name = boxes[2].color_name

\* the objects of the list the placer returns: sorted() makes a new list of
\* the objects of boxes_copy
ReturnedIds == {locals.copy_ids[i] : i \in DOMAIN locals.copy_ids}

\* C17: the placer never modifies the rectangles of the caller's list: all
\* through the call, and so after the return and after the fatal error,
\* each of them has the x, y, width, height and colour it had at the call;
\* the rectangles of the returned list are objects of their own, one for
\* each input rectangle and none of them an object of the caller's list.
C17_InputUntouched ==
    op = "place" =>
        /\ boxes = locals.at_call
        /\ pc = "returned" =>
              /\ Len(result) = Len(boxes)
              /\ Cardinality(ReturnedIds) = Len(result)
              /\ ReturnedIds \cap {locals.box_ids[i] : i \in DOMAIN boxes} = {}

\* the call ended, by the return or by the fatal error, after it moved a
\* working rectangle away from the place the caller's rectangle has
C17_Witness ==
    /\ op = "place"
    /\ pc \in {"returned", "RuntimeError"}
    /\ \E i \in DOMAIN boxes :
          boxes_copy[i].x # boxes[i].x /\ boxes_copy[i].width = boxes[i].width

\* the open intervals of the columns and of the rows of a and b both meet
OpenIntervalsMeet(a, b) ==
    /\ a.x < b.x + b.width
    /\ b.x < a.x + a.width
    /\ a.y < b.y + b.height
    /\ b.y < a.y + a.height

\* a and b touch: an edge of one lies on the line of the facing edge of the
\* other (along an edge or at a corner), and they cover no common pixel
Touching(a, b) ==
    /\ \/ a.x + a.width = b.x
       \/ b.x + b.width = a.x
       \/ a.y + a.height = b.y
       \/ b.y + b.height = a.y
    /\ a.x <= b.x + b.width
    /\ b.x <= a.x + a.width
    /\ a.y <= b.y + b.height
    /\ b.y <= a.y + a.height
    /\ ~SharePixel(a, b)

\* C18: boxes_overlap(a, b) is true exactly when the open intervals of the
\* columns and of the rows of a and b both meet; it is false for two
\* rectangles that only touch, along an edge or at a corner; and it gives
\* the same answer for (b, a).
C18_OverlapIsOpenIntersection ==
    (op = "overlap" /\ pc = "returned") =>
        /\ result = OpenIntervalsMeet(locals.box_a, locals.box_b)
        /\ Touching(locals.box_a, locals.box_b) => result = FALSE
        /\ result = boxes_overlap(locals.box_b, locals.box_a)

\* the call returned for two rectangles that touch at a corner only
C18_Witness ==
    /\ op = "overlap"
    /\ pc = "returned"
    /\ locals.box_a.x + locals.box_a.width = locals.box_b.x
    /\ locals.box_a.y + locals.box_a.height = locals.box_b.y
    /\ result = FALSE

\* the statuses of the responses rs, one for each, by data.get
RECURSIVE Statuses(_)
Statuses(rs) ==
    IF rs = <<>> THEN <<>>
    ELSE <<get_status(Head(rs).json)>> \o Statuses(Tail(rs))

\* the responses of rs that passed raise_for_status
RECURSIVE Decoded(_)
Decoded(rs) ==
    IF rs = <<>> THEN <<>>
    ELSE IF raise_for_status(Head(rs)) THEN Decoded(Tail(rs))
    ELSE <<Head(rs)>> \o Decoded(Tail(rs))

LastResponse == locals.responses[Len(locals.responses)]

\* poll_until_ready returns a response only if its status is "Ready", and
\* never goes on polling after a "Ready", "Error" or "Failed" answer; the
\* time being over at the top of the loop ends the call with TimeoutError
PollOutcomes ==
    /\ [](op = "poll" =>
            /\ pc = "returned" =>
                  /\ result = LastResponse.json
                  /\ ~raise_for_status(LastResponse)
                  /\ get_status(result) = "Ready"
            /\ (pc = "loop" /\ locals.responses # <<>>) =>
                  /\ ~raise_for_status(LastResponse)
                  /\ get_status(LastResponse.json) \notin {"Ready", "Error", "Failed"}
            /\ pc = "TimeoutError" =>
                  /\ locals.timeout_seconds # None
                  /\ locals.elapsed > locals.timeout_seconds.seconds)
    /\ [][(op = "poll" /\ pc = "loop" /\ locals.timeout_seconds # None
              /\ locals.elapsed > locals.timeout_seconds.seconds)
            => pc' = "TimeoutError"]_vars

ValidCandidates ==
    {locals.candidates[i] : i \in valid_places(locals.candidates)}

SelectKey(c) == sort_key(c, locals.original_rect_count, locals.original_rect_areas)

\* the rectangle count of c is the original's
CountMatches(c) ==
    locals.original_rect_count # None
        /\ c.rectangle_count = locals.original_rect_count.value

\* C20: select_best returns None exactly when no candidate has an empty
\* percentage; otherwise it returns one of the candidates that have one,
\* and none of them has a smaller key in the order by count mismatch, then
\* size-match score, then empty percentage; so when some of them has the
\* original's rectangle count, the one returned has it too, whatever the
\* size scores and the empty percentages are.
C20_SelectBest ==
    (op = "select" /\ pc = "returned") =>
        /\ result = None <=> ValidCandidates = {}
        /\ result # None =>
              /\ result \in ValidCandidates
              /\ \A c \in ValidCandidates : ~KeyLess(SelectKey(c), SelectKey(result))
              /\ (\E c \in ValidCandidates : CountMatches(c)) => CountMatches(result)

\* the candidate returned has the original's rectangle count, and was
\* preferred to one with another count, a better size score and a lower
\* empty percentage
C20_Witness ==
    /\ op = "select"
    /\ pc = "returned"
    /\ result # None
    /\ CountMatches(result)
    /\ \E c \in ValidCandidates :
          /\ ~CountMatches(c)
          /\ ScoreLess(SelectKey(c)[2], SelectKey(result)[2])
          /\ c.empty_percentage < result.empty_percentage

\* C21: the placer places the rectangles in descending order of area, and
\* rectangles of equal area in the order they have in the input list: of
\* two rectangles placed one after the other, the earlier has the larger
\* area, or the same area and the earlier place in the input; and a
\* rectangle not yet placed never goes before one that is.
C21_LargestFirst ==
    op = "place" =>
        /\ \A k, l \in DOMAIN placed_boxes :
              k < l =>
                LET i == placed_boxes[k]
                    j == placed_boxes[l]
                IN  \/ Area(boxes[i]) > Area(boxes[j])
                    \/ Area(boxes[i]) = Area(boxes[j]) /\ i < j
        /\ \A k \in DOMAIN placed_boxes, j \in DOMAIN boxes :
              (\A l \in DOMAIN placed_boxes : placed_boxes[l] # j) =>
                LET i == placed_boxes[k]
                IN  \/ Area(boxes[i]) > Area(boxes[j])
                    \/ Area(boxes[i]) = Area(boxes[j]) /\ i < j

\* the second rectangle of the input, the larger one, was placed first and
\* the first after it
C21_Witness ==
    /\ op = "place"
    /\ placed_boxes = <<2, 1>>
    /\ Area(boxes[2]) > Area(boxes[1])

\* the rectangles placed before the k-th placed one
PlacedBefore(k) == {boxes_copy[placed_boxes[l]] : l \in 1..(k - 1)}

\* the rectangle b put at (x, y) covers a pixel of one of the rectangles S
Blocked(b, x, y, S) == \E other \in S : SharePixel([b EXCEPT !.x = x, !.y = y], other)

\* C22: the placer comes to the grid scan for a rectangle only after all
\* its random attempts for it failed, the last of them on a position that
\* overlaps a placed rectangle; and a position accepted by the grid scan
\* is a grid point (x and y multiples of the step, within
\* [0, canvas_width - width] x [0, canvas_height - height]) that overlaps
\* no rectangle placed before, with every grid point before it in the
\* order of rows (y ascending, then x ascending) overlapping one.
C22_GridScanLastAndFirstFit ==
    op = "place" =>
        /\ pc = "grid" =>
              /\ attempt = MaxTries
              /\ LET b == boxes_copy[order[oi]]
                 IN  Blocked(b, b.x, b.y, PlacedBefore(oi))
        /\ \A k \in DOMAIN placed_boxes :
              how[placed_boxes[k]] = "grid" =>
                LET b == boxes_copy[placed_boxes[k]]
                    S == PlacedBefore(k)
                IN  /\ b.x % GridStep = 0 /\ b.y % GridStep = 0
                    /\ b.x \in 0..(IMAGE_WIDTH - b.width)
                    /\ b.y \in 0..(IMAGE_HEIGHT - b.height)
                    /\ ~Blocked(b, b.x, b.y, S)
                    /\ \A x \in 0..(IMAGE_WIDTH - b.width), y \in 0..(IMAGE_HEIGHT - b.height) :
                          (/\ x % GridStep = 0 /\ y % GridStep = 0
                           /\ (y < b.y \/ (y = b.y /\ x < b.x)))
                            => Blocked(b, x, y, S)

\* the grid scan accepted a position that is not the first grid point:
\* the point before it in the row was taken
C22_Witness ==
    /\ op = "place"
    /\ \E k \in DOMAIN placed_boxes :
          /\ how[placed_boxes[k]] = "grid"
          /\ boxes_copy[placed_boxes[k]].x > 0
          /\ boxes_copy[placed_boxes[k]].y = 0

\* the largest width and the largest height among the input rectangles
MaxRectWidth == Max({boxes[i].width : i \in DOMAIN boxes})
MaxRectHeight == Max({boxes[i].height : i \in DOMAIN boxes})

\* C23: every candidate bin (W, H) of generate_candidate_bins is at least
\* as wide and as high as the widest and the highest rectangle and at most
\* as wide and as high as the canvas; and when the widest and the highest
\* rectangle do not exceed the canvas, the candidates include the full
\* canvas and the bin (largest width, largest height).
C23_CandidateBinsBounded ==
    op = "pack" =>
        LET candidates == generate_candidate_bins(boxes)
        IN  /\ bins \subseteq candidates
            /\ \A wh \in candidates :
                  /\ MaxRectWidth <= wh[1] /\ wh[1] <= IMAGE_WIDTH
                  /\ MaxRectHeight <= wh[2] /\ wh[2] <= IMAGE_HEIGHT
            /\ (MaxRectWidth <= IMAGE_WIDTH /\ MaxRectHeight <= IMAGE_HEIGHT) =>
                  /\ <<IMAGE_WIDTH, IMAGE_HEIGHT>> \in candidates
                  /\ <<MaxRectWidth, MaxRectHeight>> \in candidates

\* a call went through candidates for rectangles within the canvas whose
\* total area has a square root below the largest width
C23_Witness ==
    /\ op = "pack"
    /\ attempts.count > 0
    /\ MaxRectWidth <= IMAGE_WIDTH /\ MaxRectHeight < IMAGE_HEIGHT
    /\ CeilSqrt(total_area(boxes)) < MaxRectWidth

\* the nominal area W*H of a bin
NominalArea(bin) == bin[1] * bin[2]

\* C24: the packer tries the candidate bins in non-decreasing order of
\* their nominal area and each of them at most once: a pass of the
\* candidate loop takes one bin out of those still to try, for good, and
\* none of the bins left has a smaller nominal area than the bin taken.
C24_AscendingNominalArea ==
    /\ [][(op = "pack" /\ pc = "candidates") =>
            \E bin \in bins :
                /\ bins' = bins \ {bin}
                /\ attempts'.count = attempts.count + 1
                /\ \A other \in bins' : NominalArea(bin) <= NominalArea(other)]_vars
    /\ [][op = "pack" => bins' \subseteq bins]_vars

\* two candidates or more were tried, the last of a larger nominal area
\* than the smallest candidate
C24_Witness ==
    /\ op = "pack"
    /\ attempts.count >= 2
    /\ ~attempts.fallback
    /\ \E bin \in generate_candidate_bins(boxes) :
          NominalArea(bin) < attempts.last_area

\* C25 as stated: the placement the packer returns is that of a successful
\* candidate of the loop, of the least used area among the candidates
\* tried, and the first tried among those of that used area.
C25_BestOfCandidates ==
    Packed =>
        /\ attempts.cand_ok
        /\ best_result.used_area = attempts.min_used
        /\ result = SortByColor(attempts.first_min)

\* C25: when some candidate of the loop succeeded, the placement the
\* packer returns is that of a successful candidate of the least used area
\* among the candidates tried, and of the first tried among those of that
\* used area; when none did (there was no candidate, or all failed), the
\* placement returned is that of the fallback on the full canvas.
C25_BestOfCandidatesOrFallback ==
    Packed =>
        /\ attempts.cand_ok =>
              /\ ~attempts.fallback
              /\ best_result.used_area = attempts.min_used
              /\ result = SortByColor(attempts.first_min)
        /\ ~attempts.cand_ok =>
              /\ attempts.fallback
              /\ attempts.first_min = <<>>

\* the packer returned two rectangles after it went through three
\* candidates or more, none of which reached the sum of the areas
C25_Witness ==
    /\ Packed
    /\ attempts.cand_ok
    /\ attempts.count >= 3
    /\ attempts.tight_min = FALSE
    /\ Len(result) = 2

\* C26: the used area try_pack_in_bin reports for a successful attempt is
\* the tight bounding area of its placement: (the largest x + width less
\* the smallest x) times (the largest y + height less the smallest y).
C26_UsedAreaIsTight ==
    (op = "pack" /\ best_result # None) =>
        best_result.used_area = TightArea(best_result.placements)

\* the used area reported is never below the tight bounding area and never
\* above the area of the canvas
C26_UsedAreaAtLeastTight ==
    (op = "pack" /\ best_result # None) =>
        /\ best_result.used_area >= TightArea(best_result.placements)
        /\ best_result.used_area <= IMAGE_WIDTH * IMAGE_HEIGHT

\* the pixels [x, x+w) x [y, y+h) of the bounding box b = (x, y, w, h)
Covers(b) ==
    {px \in (0..(img_width - 1)) \X (0..(img_height - 1)) :
        /\ b[1] <= px[1] /\ px[1] < b[1] + b[3]
        /\ b[2] <= px[2] /\ px[2] < b[2] + b[4]}

\* C27: occupied_pixels is the number of pixels of the image covered by
\* at least one accepted rectangle, a rectangle of bounding box
\* (x, y, w, h) covering its w*h pixels [x, x+w) x [y, y+h); so for
\* rectangles with no pixel in common it is the sum of their areas.
C27_OccupiedIsCoverage ==
    Analysed =>
        /\ result.occupied_pixels =
              Cardinality(UNION {Covers(rectangles[i].bbox) : i \in DOMAIN rectangles})
        /\ (\A i, j \in DOMAIN rectangles :
                i # j => Covers(rectangles[i].bbox) \cap Covers(rectangles[j].bbox) = {})
              => result.occupied_pixels = Sum([i \in DOMAIN rectangles |-> rectangles[i].area])

\* C28: in every summary empty_pixels is total_pixels less
\* occupied_pixels, with occupied_pixels from 0 to total_pixels;
\* rectangle_count is the length of the list of rectangles; with a
\* rectangle detected, content_area_pixels is the area of the smallest box
\* that holds all the bounding boxes and gap_pixels lies from 0 to it; with
\* none, content_bbox is None and content_area_pixels and gap_pixels are 0.
C28_SummaryConsistent ==
    Analysed =>
        /\ result.empty_pixels = result.total_pixels - result.occupied_pixels
        /\ 0 <= result.occupied_pixels
        /\ result.occupied_pixels <= result.total_pixels
        /\ result.rectangle_count = Len(result.rectangles)
        /\ result.rectangles # <<>> =>
              LET bs == {result.rectangles[i].bbox : i \in DOMAIN result.rectangles}
                  w == Max({b[1] + b[3] : b \in bs}) - Min({b[1] : b \in bs})
                  h == Max({b[2] + b[4] : b \in bs}) - Min({b[2] : b \in bs})
              IN  /\ result.content_bbox # None
                  /\ result.content_area_pixels = w * h
                  /\ 0 <= result.gap_pixels
                  /\ result.gap_pixels <= result.content_area_pixels
        /\ result.rectangles = <<>> =>
              /\ result.content_bbox = None
              /\ result.content_area_pixels = 0
              /\ result.gap_pixels = 0

\* a summary of two rectangles apart from each other, with a gap between
\* them inside their common bounding box
C28_Witness ==
    /\ Analysed
    /\ Len(result.rectangles) = 2
    /\ result.rectangles[1].bbox # result.rectangles[2].bbox
    /\ result.gap_pixels > 0
    /\ result.content_area_pixels >
          result.rectangles[1].area + result.rectangles[2].area

\* C29: generate_and_validate_parallel with count tasks returns a list of
\* exactly count records whose index fields are 1..count in that order,
\* in whatever order the tasks complete and whichever of them fail; a
\* failure of a task (submission, polling, missing sample, saving,
\* validation) gives an error record for its index and neither ends the
\* call with an exception nor takes away the record of another task.
C29_OneRecordPerTask ==
    /\ [](op = "generate" =>
            /\ pc # "Exception"
            /\ \A i \in 1..locals.count :
                  locals.stage[i] = "done" => locals.records[i].index = i
            /\ pc = "returned" =>
                  /\ Len(result) = locals.count
                  /\ \A k \in 1..locals.count : result[k] = locals.records[k]
                  /\ \A k \in 1..locals.count : result[k].index = k)
    /\ [][op = "generate" =>
            \A i \in 1..locals.count :
                locals.stage[i] = "done" =>
                    locals'.stage[i] = "done" /\ locals'.records[i] = locals.records[i]]_vars

\* the call returned two records after the second task completed first,
\* the first task with a failure and the second with its metrics
C29_Witness ==
    /\ op = "generate"
    /\ pc = "returned"
    /\ locals.finished = <<2, 1>>
    /\ "error" \in DOMAIN result[1]
    /\ "error" \notin DOMAIN result[2]
====
